---- MODULE Spec2Model ----
(***************************************************************************)
(* Model of pkg/koordlet/util/resourceexecutor/updater.go: the resource    *)
(* updaters (cgroup and default), the plain and the merge update drivers,  *)
(* the two merge-condition policies and the updater factory.               *)
(*                                                                         *)
(* Strings are sequences of one-character strings, so that parsing and     *)
(* formatting are computed character by character.  Signed 64-bit integers *)
(* are kept as sign and decimal magnitude, so that the range check of      *)
(* strconv.ParseInt is exact.                                              *)
(***************************************************************************)
EXTENDS Integers, Sequences, FiniteSets, TLC

\* ------------------------------------------------------------------ bounds

\* Scalar values requested and initially stored range over 0..MaxVal.
MaxVal == 2
\* CPU indexes requested and initially stored range over 0..MaxCPU.
MaxCPU == 2
\* Timestamps handed to UpdateLastUpdateTimestamp range over 0..MaxTime.
MaxTime == 1
\* Goroutines calling the factory concurrently.
NumProcs == 2
\* Kinds named by one Register call: at most MaxTypes.
MaxTypes == 2
\* Values requested where every operation of an updater is exercised: 0..MaxSmall.
MaxSmall == 1

\* ------------------------------------------------------------ characters

DigitChars == <<"0", "1", "2", "3", "4", "5", "6", "7", "8", "9">>

IsDigit(c) == \E i \in 1..10 : DigitChars[i] = c

DigitVal(c) == (CHOOSE i \in 1..10 : DigitChars[i] = c) - 1

DigitChar(d) == DigitChars[d + 1]

\* Decimal rendering of a natural number (strconv.Itoa on a CPU index).
RECURSIVE Itoa(_)
Itoa(n) == IF n < 10 THEN <<DigitChar(n)>> ELSE Itoa(n \div 10) \o <<DigitChar(n % 10)>>

\* ------------------------------------------------- strconv.ParseInt(s,10,64)

\* Magnitudes are sequences of digits 0..9 without leading zeros (zero is <<0>>).
RECURSIVE StripZeros(_)
StripZeros(m) == IF Len(m) > 1 /\ m[1] = 0 THEN StripZeros(Tail(m)) ELSE m

MagLess(a, b) ==
    \/ Len(a) < Len(b)
    \/ /\ Len(a) = Len(b)
       /\ \E i \in 1..Len(a) : a[i] < b[i] /\ \A j \in 1..(i - 1) : a[j] = b[j]

\* 2^63 - 1 and 2^63, the bounds of int64.
MaxInt64Mag == <<9, 2, 2, 3, 3, 7, 2, 0, 3, 6, 8, 5, 4, 7, 7, 5, 8, 0, 7>>
MinInt64Mag == <<9, 2, 2, 3, 3, 7, 2, 0, 3, 6, 8, 5, 4, 7, 7, 5, 8, 0, 8>>

ParseErr == [ok |-> FALSE, neg |-> FALSE, mag |-> <<0>>]

\* strconv.ParseInt(s, 10, 64): an optional sign, then one or more decimal
\* digits, the value within int64; anything else is an error.
ParseInt(s) ==
    IF s = <<>> THEN ParseErr
    ELSE LET signed == s[1] \in {"+", "-"}
             neg    == s[1] = "-"
             body   == IF signed THEN Tail(s) ELSE s
         IN  IF body = <<>> \/ \E i \in 1..Len(body) : ~IsDigit(body[i])
             THEN ParseErr
             ELSE LET mag == StripZeros([i \in 1..Len(body) |-> DigitVal(body[i])])
                  IN  IF neg /\ MagLess(MinInt64Mag, mag) THEN ParseErr
                      ELSE IF ~neg /\ MagLess(MaxInt64Mag, mag) THEN ParseErr
                      ELSE [ok |-> TRUE, neg |-> neg /\ mag # <<0>>, mag |-> mag]

\* a > b on parsed int64 values.
IntGreater(a, b) ==
    IF a.neg # b.neg THEN b.neg
    ELSE IF a.neg THEN MagLess(a.mag, b.mag)
    ELSE MagLess(b.mag, a.mag)

IntGeq(a, b) == ~IntGreater(b, a)

\* ------------------------------------------------------- cpuset (set algebra)

\* strings.Split(s, sep) for a one-character separator.
RECURSIVE Split(_, _)
Split(s, sep) ==
    IF \A i \in 1..Len(s) : s[i] # sep THEN <<s>>
    ELSE LET k == CHOOSE i \in 1..Len(s) : s[i] = sep /\ \A j \in 1..(i - 1) : s[j] # sep
         IN  <<SubSeq(s, 1, k - 1)>> \o Split(SubSeq(s, k + 1, Len(s)), sep)

\* A CPU index: one or more decimal digits.
IsIndex(s) == s # <<>> /\ \A i \in 1..Len(s) : IsDigit(s[i])

RECURSIVE IndexVal(_)
IndexVal(s) ==
    IF Len(s) = 1 THEN DigitVal(s[1])
    ELSE 10 * IndexVal(SubSeq(s, 1, Len(s) - 1)) + DigitVal(s[Len(s)])

\* One element of a CPU list: "n" or "a-b" with a <= b.
RangeOK(r) ==
    LET b == Split(r, "-")
    IN  \/ Len(b) = 1 /\ IsIndex(b[1])
        \/ Len(b) = 2 /\ IsIndex(b[1]) /\ IsIndex(b[2]) /\ IndexVal(b[1]) <= IndexVal(b[2])

RangeSet(r) ==
    LET b == Split(r, "-")
    IN  IF Len(b) = 1 THEN {IndexVal(b[1])} ELSE IndexVal(b[1])..IndexVal(b[2])

\* cpuset.Parse: the empty string is the empty set; otherwise a comma-separated
\* list of indexes and ranges.
CPUSetParse(s) ==
    IF s = <<>> THEN [ok |-> TRUE, set |-> {}]
    ELSE LET rs == Split(s, ",")
         IN  IF \E i \in 1..Len(rs) : ~RangeOK(rs[i])
             THEN [ok |-> FALSE, set |-> {}]
             ELSE [ok |-> TRUE, set |-> UNION {RangeSet(rs[i]) : i \in 1..Len(rs)}]

IsSubsetOf(a, b) == a \subseteq b

Union(a, b) == a \cup b

\* CPUSet.String: the canonical form, ascending, consecutive indexes as "a-b".
RECURSIVE CPUSetString(_)
CPUSetString(set) ==
    IF set = {} THEN <<>>
    ELSE LET lo    == CHOOSE x \in set : \A y \in set : x <= y
             hi    == CHOOSE h \in set : /\ h >= lo
                                         /\ \A y \in lo..h : y \in set
                                         /\ (h + 1) \notin set
             piece == IF lo = hi THEN Itoa(lo) ELSE Itoa(lo) \o <<"-">> \o Itoa(hi)
             rest  == set \ (lo..hi)
         IN  IF rest = {} THEN piece ELSE piece \o <<",">> \o CPUSetString(rest)

\* ------------------------------------------------- merge-condition policies

\* MergeConditionIfValueIsLarger writing whenever the new value differs.
MergeConditionIfValueDiffers(oldValue, newValue) ==
    LET v   == ParseInt(newValue)
        old == ParseInt(oldValue)
    IN  IF ~v.ok THEN [merged |-> newValue, need |-> FALSE, err |-> "new value is not int64"]
        ELSE IF ~old.ok THEN [merged |-> newValue, need |-> FALSE, err |-> "old value is not int64"]
        ELSE [merged |-> newValue, need |-> v # old, err |-> "nil"]

\* MergeConditionIfValueIsLarger also writing an equal value.
MergeConditionIfValueIsLargerOrEqual(oldValue, newValue) ==
    LET v   == ParseInt(newValue)
        old == ParseInt(oldValue)
    IN  IF ~v.ok THEN [merged |-> newValue, need |-> FALSE, err |-> "new value is not int64"]
        ELSE IF ~old.ok THEN [merged |-> newValue, need |-> FALSE, err |-> "old value is not int64"]
        ELSE [merged |-> newValue, need |-> IntGeq(v, old), err |-> "nil"]

\* MergeConditionIfValueIsLarger: (mergedValue, needMerge, err).
MergeConditionIfValueIsLarger(oldValue, newValue) ==
    LET v   == ParseInt(newValue)
        old == ParseInt(oldValue)
    IN  IF ~v.ok THEN [merged |-> newValue, need |-> FALSE, err |-> "new value is not int64"]
        ELSE IF ~old.ok THEN [merged |-> newValue, need |-> FALSE, err |-> "old value is not int64"]
        ELSE [merged |-> newValue, need |-> IntGreater(v, old), err |-> "nil"]

\* MergeConditionIfCPUSetIsLooser resolving to the new set without the union.
MergeConditionIfCPUSetIsLooserNoUnion(oldValue, newValue) ==
    LET v   == CPUSetParse(newValue)
        old == CPUSetParse(oldValue)
    IN  IF ~v.ok THEN [merged |-> newValue, need |-> FALSE, err |-> "new value is not valid cpuset"]
        ELSE IF ~old.ok THEN [merged |-> newValue, need |-> FALSE, err |-> "old value is not valid cpuset"]
        ELSE IF IsSubsetOf(v.set, old.set) THEN [merged |-> newValue, need |-> FALSE, err |-> "nil"]
        ELSE [merged |-> CPUSetString(v.set), need |-> TRUE, err |-> "nil"]

\* MergeConditionIfCPUSetIsLooser: (mergedValue, needMerge, err).
MergeConditionIfCPUSetIsLooser(oldValue, newValue) ==
    LET v   == CPUSetParse(newValue)
        old == CPUSetParse(oldValue)
    IN  IF ~v.ok THEN [merged |-> newValue, need |-> FALSE, err |-> "new value is not valid cpuset"]
        ELSE IF ~old.ok THEN [merged |-> newValue, need |-> FALSE, err |-> "old value is not valid cpuset"]
        ELSE IF IsSubsetOf(v.set, old.set) THEN [merged |-> newValue, need |-> FALSE, err |-> "nil"]
        ELSE [merged |-> CPUSetString(Union(v.set, old.set)), need |-> TRUE, err |-> "nil"]

\* --------------------------------------------------------------- the state

\* Slots of the heap of updater instances; a reference is a slot, 0 is nil.
NumSlots == 2

VARIABLES
    registry,   \* CgroupUpdaterFactoryImpl.registry: kind -> constructor, "none" when absent
    writer,     \* CgroupUpdaterFactoryImpl.lock: the goroutine holding it exclusively, 0 when none
    readers,    \* CgroupUpdaterFactoryImpl.lock: the goroutines holding it shared
    pc,         \* per goroutine: where it is in Register or New
    loc,        \* per goroutine: the arguments, loop index and result of its call
    firstG,     \* history: per kind, the constructor of the first Register call naming it
    completed,  \* history: the kinds named by Register calls that have returned
    disk,       \* the content of every target file
    heap,       \* the updater instances
    recv,       \* the caller's updater (a reference)
    ret,        \* the updater the caller got back from Clone or MergeUpdate (a reference)
    last,       \* the last call of the caller: what it was given, did and returned
    policy,     \* the last direct evaluation of a merge condition: arguments and results
    merging     \* per goroutine merging on its own: its updater, position, oldStr, result

factoryVars == <<registry, writer, readers, pc, loc, firstG, completed>>
updaterVars == <<disk, heap, recv, ret, last>>
vars == <<registry, writer, readers, pc, loc, firstG, completed, disk, heap, recv, ret, last, policy, merging>>

\* ------------------------------------------------------ kinds, paths, values

CPUSharesName  == "cpu.shares"
MemoryMinName  == "memory.min"
CPUSetCPUSName == "cpuset.cpus"

Kinds == {CPUSharesName, MemoryMinName, CPUSetCPUSName}

Ctors == {"NewCommonCgroupUpdater", "NewMergeableCgroupUpdaterIfValueLarger",
          "NewMergeableCgroupUpdaterIfCPUSetLooser"}

ParentDir == "kubepods"
SysDir    == "/sys/kernel/mm"
SysFile   == "enabled"

\* Resource.Path(parentDir) and filepath.Join(dir, file): directory and file name.
CgroupPath(file, parentDir) == <<parentDir, file>>

JoinPath(dir, file) == <<dir, file>>

Paths == {CgroupPath(k, ParentDir) : k \in Kinds} \cup {JoinPath(SysDir, SysFile)}

StrMax   == <<"m", "a", "x">>
StrInt64Max == <<"9", "2", "2", "3", "3", "7", "2", "0", "3", "6", "8", "5", "4", "7", "7", "5", "8", "0", "7">>
StrInt64Over == <<"9", "2", "2", "3", "3", "7", "2", "0", "3", "6", "8", "5", "4", "7", "7", "5", "8", "0", "8">>

\* Requested scalar values: 0..MaxVal, signed and zero-padded forms, the int64
\* limit and one past it, and strings that are no integer.
ScalarInputs ==
    {Itoa(n) : n \in 0..MaxVal}
    \cup {<<"+">> \o Itoa(1), <<"-">> \o Itoa(1), <<"0">> \o Itoa(MaxVal)}
    \cup {StrInt64Max, StrInt64Over, <<>>, StrMax}

\* Requested CPU sets: single indexes, ranges a-b with a < b, a one-index range,
\* a malformed range (a > b), two-element lists in either order, the empty set,
\* and strings that are no CPU set.
CPUSetInputs ==
    {Itoa(a) : a \in 0..MaxCPU}
    \cup {Itoa(p[1]) \o <<"-">> \o Itoa(p[2]) : p \in {q \in (0..MaxCPU) \X (0..MaxCPU) : q[1] < q[2]}}
    \cup {Itoa(1) \o <<"-">> \o Itoa(1), Itoa(MaxCPU) \o <<"-">> \o Itoa(0)}
    \cup {Itoa(0) \o <<",">> \o Itoa(MaxCPU), Itoa(MaxCPU) \o <<",">> \o Itoa(0)}
    \cup {<<>>, <<"x">>, <<"0", "-">>}

InputsFor(kind) == IF kind = CPUSetCPUSName THEN CPUSetInputs ELSE ScalarInputs

\* What a target file may hold before the first call.
InitialContent(path) ==
    IF path = CgroupPath(CPUSetCPUSName, ParentDir) THEN {<<>>, Itoa(1)}
    ELSE IF path = CgroupPath(MemoryMinName, ParentDir) THEN {Itoa(0), StrMax}
    ELSE {Itoa(1)}

\* ------------------------------------------------------------ the updaters

NilObj == [variant |-> "nil"]

\* CgroupResourceUpdater{file, parentDir, value, lastUpdateTimestamp, updateFunc, mergeUpdateFunc}
CgroupResourceUpdater(file, parentDir, value, ts, updateFunc, mergeUpdateFunc) ==
    [variant |-> "cgroup", file |-> file, dir |-> parentDir, value |-> value,
     lastUpdateTimestamp |-> ts, updateFunc |-> updateFunc, mergeUpdateFunc |-> mergeUpdateFunc]

\* DefaultResourceUpdater{value, dir, file, lastUpdateTimestamp, updateFunc}
DefaultResourceUpdater(file, dir, value, ts, updateFunc) ==
    [variant |-> "default", file |-> file, dir |-> dir, value |-> value,
     lastUpdateTimestamp |-> ts, updateFunc |-> updateFunc, mergeUpdateFunc |-> "nil"]

ResourceType(u) == u.file

Path(u) == IF u.variant = "cgroup" THEN CgroupPath(u.file, u.dir) ELSE JoinPath(u.dir, u.file)

Value(u) == u.value

GetLastUpdateTimestamp(u) == u.lastUpdateTimestamp

\* Clone leaving out the directory of its source.
CloneObjDropsDir(u) ==
    IF u.variant = "cgroup"
    THEN CgroupResourceUpdater(u.file, "", u.value, u.lastUpdateTimestamp, u.updateFunc, u.mergeUpdateFunc)
    ELSE DefaultResourceUpdater(u.file, "", u.value, u.lastUpdateTimestamp, u.updateFunc)

\* Clone starting the timestamp anew, as the constructors do.
CloneObjNewTimestamp(u) ==
    IF u.variant = "cgroup"
    THEN CgroupResourceUpdater(u.file, u.dir, u.value, 0, u.updateFunc, u.mergeUpdateFunc)
    ELSE DefaultResourceUpdater(u.file, u.dir, u.value, 0, u.updateFunc)

\* Clone: a new instance with the fields of u.
CloneObj(u) ==
    IF u.variant = "cgroup"
    THEN CgroupResourceUpdater(u.file, u.dir, u.value, u.lastUpdateTimestamp, u.updateFunc, u.mergeUpdateFunc)
    ELSE DefaultResourceUpdater(u.file, u.dir, u.value, u.lastUpdateTimestamp, u.updateFunc)

\* The constructors: (updater, error); found is the answer of sysutil.DefaultRegistry.Get.
NewCommonDefaultUpdater(file, dir, value) ==
    [obj |-> DefaultResourceUpdater(file, dir, value, 0, "CommonDefaultUpdateFunc"), err |-> "nil"]

NewCommonCgroupUpdater(resourceType, parentDir, value, found) ==
    IF ~found THEN [obj |-> NilObj, err |-> "not found in cgroup registry"]
    ELSE [obj |-> CgroupResourceUpdater(resourceType, parentDir, value, 0, "CommonCgroupUpdateFunc", "nil"),
          err |-> "nil"]

NewMergeableCgroupUpdaterWithCondition(resourceType, parentDir, value, mergeCondition, found) ==
    IF ~found THEN [obj |-> NilObj, err |-> "not found in cgroup registry"]
    ELSE [obj |-> CgroupResourceUpdater(resourceType, parentDir, value, 0, "CommonCgroupUpdateFunc",
                                        mergeCondition),
          err |-> "nil"]

NewMergeableCgroupUpdaterIfValueLarger(resourceType, parentDir, value, found) ==
    NewMergeableCgroupUpdaterWithCondition(resourceType, parentDir, value,
                                           "MergeConditionIfValueIsLarger", found)

NewMergeableCgroupUpdaterIfCPUSetLooser(resourceType, parentDir, value, found) ==
    NewMergeableCgroupUpdaterWithCondition(resourceType, parentDir, value,
                                           "MergeConditionIfCPUSetIsLooser", found)

\* Calling a registered constructor g.
CallCtor(g, resourceType, parentDir, value, found) ==
    IF g = "NewCommonCgroupUpdater" THEN NewCommonCgroupUpdater(resourceType, parentDir, value, found)
    ELSE IF g = "NewMergeableCgroupUpdaterIfValueLarger"
         THEN NewMergeableCgroupUpdaterIfValueLarger(resourceType, parentDir, value, found)
    ELSE NewMergeableCgroupUpdaterIfCPUSetLooser(resourceType, parentDir, value, found)

\* Calling the merge condition a mergeable updater was built with.
CallMergeCondition(mergeCondition, oldValue, newValue) ==
    IF mergeCondition = "MergeConditionIfValueIsLarger"
    THEN MergeConditionIfValueIsLarger(oldValue, newValue)
    ELSE MergeConditionIfCPUSetIsLooser(oldValue, newValue)

\* -------------------------------------------------------------- the drivers

Event(op, arg, ok) == [op |-> op, arg |-> arg, ok |-> ok]

\* What a driver did: the calls it made on its collaborators in order, the error
\* it returned, which updater it returned ("self", "clone", "nil"), the value
\* put into the clone, and the content of the target file afterwards.
Outcome(events, err, returned, cloneValue, content) ==
    [events |-> events, err |-> err, ret |-> returned, cloneValue |-> cloneValue, content |-> content]

\* The plain cgroup update giving up, with the error of the audit sink, when the
\* audit entry cannot be recorded.
CommonCgroupUpdateFuncAuditAborts(c, cur, writeOk, auditOk) ==
    IF ~auditOk
    THEN Outcome(<<Event("audit", c.value, auditOk)>>, "audit failed", "self", <<>>, cur)
    ELSE Outcome(<<Event("audit", c.value, auditOk), Event("CgroupFileWriteIfDifferent", c.value, writeOk)>>,
                 IF writeOk THEN "nil" ELSE "write failed", "self", <<>>, IF writeOk THEN c.value ELSE cur)

\* CommonCgroupUpdateFunc: the audit entry, then sysutil.CgroupFileWriteIfDifferent,
\* whose error is returned.  A failed write leaves the file as it was.
CommonCgroupUpdateFunc(c, cur, writeOk, auditOk) ==
    Outcome(<<Event("audit", c.value, auditOk), Event("CgroupFileWriteIfDifferent", c.value, writeOk)>>,
            IF writeOk THEN "nil" ELSE "write failed",
            "self", <<>>,
            IF writeOk THEN c.value ELSE cur)

\* CommonDefaultUpdateFunc: the same on sysutil.CommonFileWriteIfDifferent.
CommonDefaultUpdateFunc(c, cur, writeOk, auditOk) ==
    Outcome(<<Event("audit", c.value, auditOk), Event("CommonFileWriteIfDifferent", c.value, writeOk)>>,
            IF writeOk THEN "nil" ELSE "write failed",
            "self", <<>>,
            IF writeOk THEN c.value ELSE cur)

CallUpdateFunc(u, cur, writeOk, auditOk) ==
    IF u.updateFunc = "CommonCgroupUpdateFunc" THEN CommonCgroupUpdateFunc(u, cur, writeOk, auditOk)
    ELSE CommonDefaultUpdateFunc(u, cur, writeOk, auditOk)

\* The skip handing back the updater it was given instead of a clone.
MergeSkipReturnsSelf(c, events, oldStr, cur) == Outcome(events, "nil", "self", oldStr, cur)

\* The skip of MergeFuncUpdateCgroup: no write, a clone holding the old value.
MergeSkip(c, events, oldStr, cur) == Outcome(events, "nil", "clone", oldStr, cur)

\* The write putting the requested value, not the merged one, into the file.
MergeWriteRaw(c, events, mergedValue, cur, writeOk, auditOk) ==
    Outcome(events \o <<Event("audit", c.value, auditOk), Event("CgroupFileWrite", c.value, writeOk)>>,
            IF writeOk THEN "nil" ELSE "write failed",
            "self", <<>>,
            IF writeOk THEN c.value ELSE cur)

\* The write of MergeFuncUpdateCgroup: the audit entry, then sysutil.CgroupFileWrite
\* of the merged value; the updater itself is returned with the write's error.
MergeWrite(c, events, mergedValue, cur, writeOk, auditOk) ==
    Outcome(events \o <<Event("audit", c.value, auditOk), Event("CgroupFileWrite", mergedValue, writeOk)>>,
            IF writeOk THEN "nil" ELSE "write failed",
            "self", <<>>,
            IF writeOk THEN mergedValue ELSE cur)

\* The merge driver going on to the read after a failed validation.
MergeFuncUpdateCgroupNoValidate(c, cur, isValid, readOk, writeOk, auditOk) ==
    LET evValid == Event("IsValid", c.value, isValid)
        evRead  == Event("CgroupFileRead", <<>>, readOk)
        oldStr  == cur
        cond    == CallMergeCondition(c.mergeUpdateFunc, oldStr, c.value)
        evCond  == Event("mergeCondition", oldStr, cond.err = "nil")
    IN  IF ~readOk THEN Outcome(<<evValid, evRead>>, "read failed", "self", <<>>, cur)
        ELSE IF cond.err # "nil" THEN Outcome(<<evValid, evRead, evCond>>, cond.err, "self", <<>>, cur)
        ELSE IF ~cond.need THEN MergeSkip(c, <<evValid, evRead, evCond>>, oldStr, cur)
        ELSE MergeWrite(c, <<evValid, evRead, evCond>>, cond.merged, cur, writeOk, auditOk)

\* The merge driver not looking at the error of the merge condition.
MergeFuncUpdateCgroupIgnoresCondErr(c, cur, isValid, readOk, writeOk, auditOk) ==
    LET evValid == Event("IsValid", c.value, isValid)
        evRead  == Event("CgroupFileRead", <<>>, readOk)
        oldStr  == cur
        cond    == CallMergeCondition(c.mergeUpdateFunc, oldStr, c.value)
        evCond  == Event("mergeCondition", oldStr, cond.err = "nil")
    IN  IF ~isValid THEN Outcome(<<evValid>>, "parse new value failed", "self", <<>>, cur)
        ELSE IF ~readOk THEN Outcome(<<evValid, evRead>>, "read failed", "self", <<>>, cur)
        ELSE IF ~cond.need THEN MergeSkip(c, <<evValid, evRead, evCond>>, oldStr, cur)
        ELSE MergeWrite(c, <<evValid, evRead, evCond>>, cond.merged, cur, writeOk, auditOk)

\* MergeFuncUpdateCgroup: validate, read, evaluate the condition, then skip or write.
\* The log holds, in order, the calls made: IsValid, CgroupFileRead, the merge
\* condition (ok when it returned no error), then the audit entry and the write.
MergeFuncUpdateCgroup(c, cur, isValid, readOk, writeOk, auditOk) ==
    LET evValid == Event("IsValid", c.value, isValid)
        evRead  == Event("CgroupFileRead", <<>>, readOk)
        oldStr  == cur
        cond    == CallMergeCondition(c.mergeUpdateFunc, oldStr, c.value)
        evCond  == Event("mergeCondition", oldStr, cond.err = "nil")
    IN  IF ~isValid THEN Outcome(<<evValid>>, "parse new value failed", "self", <<>>, cur)
        ELSE IF ~readOk THEN Outcome(<<evValid, evRead>>, "read failed", "self", <<>>, cur)
        ELSE IF cond.err # "nil" THEN Outcome(<<evValid, evRead, evCond>>, cond.err, "self", <<>>, cur)
        ELSE IF ~cond.need THEN MergeSkip(c, <<evValid, evRead, evCond>>, oldStr, cur)
        ELSE MergeWrite(c, <<evValid, evRead, evCond>>, cond.merged, cur, writeOk, auditOk)

\* CgroupResourceUpdater.Update and DefaultResourceUpdater.Update.
UpdateOf(u, cur, writeOk, auditOk) == CallUpdateFunc(u, cur, writeOk, auditOk)

\* MergeUpdate running the merge driver whether or not a merge function is set.
MergeUpdateOfAlwaysMerges(u, cur, isValid, readOk, writeOk, auditOk) ==
    IF u.variant = "default"
    THEN [CallUpdateFunc(u, cur, writeOk, auditOk) EXCEPT !.ret = "nil"]
    ELSE MergeFuncUpdateCgroup(u, cur, isValid, readOk, writeOk, auditOk)

\* CgroupResourceUpdater.MergeUpdate and DefaultResourceUpdater.MergeUpdate: without
\* a merge function the plain update runs and the updater returned is nil.
MergeUpdateOf(u, cur, isValid, readOk, writeOk, auditOk) ==
    IF u.variant = "default" \/ u.mergeUpdateFunc = "nil"
    THEN [CallUpdateFunc(u, cur, writeOk, auditOk) EXCEPT !.ret = "nil"]
    ELSE MergeFuncUpdateCgroup(u, cur, isValid, readOk, writeOk, auditOk)

\* ---------------------------------------------------------------- the heap

\* The slot of a newly allocated instance: one that holds no live instance.
FreshSlot(live) == CHOOSE i \in (1..NumSlots) \ live : \A j \in (1..NumSlots) \ live : i <= j

\* Clone handing back the instance it was called on.
CloneRefAlias(r) == r

\* The slot of the instance Clone returns for the instance at r.
CloneRef(r) == FreshSlot({r})

\* Instances no reference reaches are collected.
Collect(h, refs) == [i \in 1..NumSlots |-> IF i \in refs THEN h[i] ELSE NilObj]

NoPolicy == [cond |-> "none", old |-> <<>>, new |-> <<>>, merged |-> <<>>, need |-> FALSE, err |-> "nil"]

\* The two goroutines that merge on their own.
Callers == {1, 2}

\* No goroutine is merging on its own.
NoMerging == [p \in Callers |-> [pc |-> "idle", u |-> NilObj, oldStr |-> <<>>, res |-> "none"]]

NoCall == [op |-> "none", self |-> 0, before |-> NilObj, old |-> <<>>, events |-> <<>>, err |-> "nil"]

Call(op, self, before, old, events, err) ==
    [op |-> op, self |-> self, before |-> before, old |-> old, events |-> events, err |-> err]

\* ------------------------------------------------------------- the factory

EmptyRegistry == [k \in Kinds |-> "none"]

\* The loop body installing the constructor even for a registered kind.
RegisterOneOverwrite(reg, g, t) == [reg EXCEPT ![t] = g]

\* One iteration of Register's loop: an already registered kind is skipped.
RegisterOne(reg, g, t) == IF reg[t] # "none" THEN reg ELSE [reg EXCEPT ![t] = g]

RECURSIVE RegisterAll(_, _, _)
RegisterAll(reg, g, types) ==
    IF types = <<>> THEN reg ELSE RegisterAll(RegisterOne(reg, g, Head(types)), g, Tail(types))

\* init(): the registrations of the default factory.
DefaultRegistry ==
    RegisterAll(RegisterAll(RegisterAll(EmptyRegistry,
        "NewCommonCgroupUpdater", <<CPUSharesName>>),
        "NewMergeableCgroupUpdaterIfValueLarger", <<MemoryMinName>>),
        "NewMergeableCgroupUpdaterIfCPUSetLooser", <<CPUSetCPUSName>>)

\* New falling back to the common constructor for a kind that is not registered.
FactoryNewFallback(reg, resourceType, parentDir, value, found) ==
    LET g == IF reg[resourceType] = "none" THEN "NewCommonCgroupUpdater" ELSE reg[resourceType]
        r == CallCtor(g, resourceType, parentDir, value, found)
    IN  [obj |-> r.obj, err |-> r.err, ctor |-> g]

\* CgroupUpdaterFactoryImpl.New on registry reg: (updater, error, constructor invoked).
FactoryNew(reg, resourceType, parentDir, value, found) ==
    LET g == reg[resourceType]
    IN  IF g = "none" THEN [obj |-> NilObj, err |-> "not registered", ctor |-> "none"]
        ELSE LET r == CallCtor(g, resourceType, parentDir, value, found)
             IN  [obj |-> r.obj, err |-> r.err, ctor |-> g]

\* ------------------------------------------- the operations of one caller

\* factory.New(kind, ParentDir, value) by the caller, who keeps the updater in recv
\* and lets go of the updaters held before.
New(kind, value, found) ==
    \E r \in {FactoryNew(registry, kind, ParentDir, value, found)} :
    \E s \in {FreshSlot({})} :
        /\ recv' = IF r.err = "nil" THEN s ELSE 0
        /\ ret' = 0
        /\ heap' = Collect([heap EXCEPT ![s] = r.obj], {recv'})
        /\ last' = Call("New", 0, NilObj, <<>>, <<>>, r.err)
        /\ UNCHANGED <<disk, factoryVars, policy, merging>>

\* NewCommonDefaultUpdater(SysFile, SysDir, value) by the caller.
NewDefault(value) ==
    LET r == NewCommonDefaultUpdater(SysFile, SysDir, value)
        s == FreshSlot({})
    IN  /\ recv' = s
        /\ ret' = 0
        /\ heap' = Collect([heap EXCEPT ![s] = r.obj], {s})
        /\ last' = Call("New", 0, NilObj, <<>>, <<>>, r.err)
        /\ UNCHANGED <<disk, factoryVars, policy, merging>>

\* The answers of the collaborators are drawn for the calls that are made: the
\* answer of one that is not called is left at TRUE.
Drawn(events, isValid, readOk, writeOk, auditOk) ==
    LET ops == {events[i].op : i \in 1..Len(events)}
    IN  /\ isValid \/ "IsValid" \in ops
        /\ readOk \/ "CgroupFileRead" \in ops
        /\ writeOk \/ ops \cap {"CgroupFileWrite", "CgroupFileWriteIfDifferent", "CommonFileWriteIfDifferent"} # {}
        /\ auditOk \/ "audit" \in ops

\* recv.Update()
Update(writeOk, auditOk) ==
    /\ recv # 0
    /\ \E u \in {heap[recv]} :
       \E out \in {UpdateOf(u, disk[Path(u)], writeOk, auditOk)} :
           /\ disk' = [disk EXCEPT ![Path(u)] = out.content]
           /\ last' = Call("Update", recv, u, disk[Path(u)], out.events, out.err)
    /\ UNCHANGED <<recv, ret, heap, factoryVars, policy, merging>>

\* ret, err := recv.MergeUpdate()
MergeUpdate(isValid, readOk, writeOk, auditOk) ==
    /\ recv # 0
    /\ \E u \in {heap[recv]} :
       \E out \in {MergeUpdateOf(u, disk[Path(u)], isValid, readOk, writeOk, auditOk)} :
       \E m \in {CloneRef(recv)} :
           /\ Drawn(out.events, isValid, readOk, writeOk, auditOk)
           /\ disk' = [disk EXCEPT ![Path(u)] = out.content]
           /\ ret' = IF out.ret = "self" THEN recv ELSE IF out.ret = "clone" THEN m ELSE 0
           /\ heap' = IF out.ret = "clone"
                      THEN Collect([[heap EXCEPT ![m] = CloneObj(u)] EXCEPT ![m].value = out.cloneValue],
                                   {recv, m})
                      ELSE Collect(heap, {recv})
           /\ last' = Call("MergeUpdate", recv, u, disk[Path(u)], out.events, out.err)
    /\ UNCHANGED <<recv, factoryVars, policy, merging>>

\* ret = recv.Clone()
Clone ==
    /\ recv # 0
    /\ LET m == CloneRef(recv)
       IN  /\ ret' = m
           /\ heap' = Collect([heap EXCEPT ![m] = CloneObj(heap[recv])], {recv, m})
    /\ last' = Call("Clone", recv, heap[recv], <<>>, <<>>, "nil")
    /\ UNCHANGED <<recv, disk, factoryVars, policy, merging>>

\* r.UpdateLastUpdateTimestamp(time) for r the caller's updater or the returned one.
UpdateLastUpdateTimestamp(r, time) ==
    /\ r # 0
    /\ heap' = [heap EXCEPT ![r].lastUpdateTimestamp = time]
    /\ last' = Call("UpdateLastUpdateTimestamp", r, heap[r], <<>>, <<>>, "nil")
    /\ UNCHANGED <<recv, ret, disk, factoryVars, policy, merging>>

\* ------------------------------------------------------ the specifications

FactoryIdle ==
    /\ writer = 0
    /\ readers = {}
    /\ pc = [p \in 1..NumProcs |-> "idle"]
    /\ loc = [p \in 1..NumProcs |-> [g |-> "none", types |-> <<>>, i |-> 0, kind |-> "none", value |-> <<>>,
                                     ctor |-> "none", err |-> "nil", obj |-> NilObj]]

\* After package initialisation: the default factory holds the registrations of
\* init(), the caller holds no updater yet, the files hold some initial content.
InitMerge ==
    /\ registry = DefaultRegistry
    /\ firstG = DefaultRegistry
    /\ completed = Kinds
    /\ FactoryIdle
    /\ disk \in {d \in [Paths -> UNION {InitialContent(p) : p \in Paths}] :
                    \A p \in Paths : d[p] \in InitialContent(p)}
    /\ heap = [i \in 1..NumSlots |-> NilObj]
    /\ recv = 0
    /\ ret = 0
    /\ last = NoCall
    /\ policy = NoPolicy
    /\ merging = NoMerging

\* One caller driving merge-capable updaters with MergeUpdate only.
MergeKinds == {MemoryMinName, CPUSetCPUSName}

\* The kinds are known to the descriptor registry: the updaters are built.
NextMerge ==
    \/ \E kind \in MergeKinds : \E value \in InputsFor(kind) : New(kind, value, TRUE)
    \/ \E isValid, readOk, writeOk, auditOk \in BOOLEAN :
          MergeUpdate(isValid, readOk, writeOk, auditOk)

SpecMerge == InitMerge /\ [][NextMerge]_vars

\* ------------------------------------------------- the merge update driver

\* The last call was a MergeUpdate on a merge-capable updater.
MergeCalled == last.op = "MergeUpdate" /\ last.before.mergeUpdateFunc # "nil"

\* The target of the caller's updater.
Target == Path(heap[recv])

\* In the last call the condition was evaluated (the value passed validation and
\* the read succeeded); LastCond is what it answered.
CondEvaluated ==
    /\ MergeCalled
    /\ Len(last.events) >= 2
    /\ last.events[1].ok
    /\ last.events[2].ok

LastCond == CallMergeCondition(last.before.mergeUpdateFunc, last.old, last.before.value)

Skipped == CondEvaluated /\ LastCond.err = "nil" /\ ~LastCond.need

Wrote == CondEvaluated /\ LastCond.err = "nil" /\ LastCond.need

EventsOf(op) == {i \in 1..Len(last.events) : last.events[i].op = op}

WriteOps == {"CgroupFileWrite", "CgroupFileWriteIfDifferent", "CommonFileWriteIfDifferent"}

WriteEvents == {i \in 1..Len(last.events) : last.events[i].op \in WriteOps}

\* v does not decrease from content a to content b under the ordering of kind.
NotDecreased(kind, a, b) ==
    \/ a = b
    \/ IF kind = CPUSetCPUSName
       THEN CPUSetParse(a).ok => CPUSetParse(b).ok /\ CPUSetParse(a).set \subseteq CPUSetParse(b).set
       ELSE ParseInt(a).ok => ParseInt(b).ok /\ IntGeq(ParseInt(b), ParseInt(a))

\* C1: under one caller that only runs MergeUpdate on merge-capable updaters, no
\* step decreases a stored value: a stored integer is followed by an integer that
\* is >= it (scalar-larger), a stored CPU set by a superset of it (set-looser),
\* whatever is requested and whether or not the call errors.
C1_MergeMonotone ==
    [][\A kind \in MergeKinds :
          NotDecreased(kind, disk[CgroupPath(kind, ParentDir)], disk'[CgroupPath(kind, ParentDir)])]_vars

\* C1's case: a stored integer that an earlier merge raised above every initial
\* content, and a MergeUpdate asking for a smaller one that left it in place.
C1_Witness ==
    /\ MergeCalled
    /\ last.before.file = MemoryMinName
    /\ last.err = "nil"
    /\ disk[Target] \notin InitialContent(Target)
    /\ IntGreater(ParseInt(disk[Target]), ParseInt(last.before.value))
    /\ disk[Target] = last.old

\* C2: when the condition answers, without error, that no write is needed,
\* MergeUpdate writes nothing and audits nothing, the file is unchanged, the
\* updater returned is another instance than the receiver, its value is the old
\* content of the file, and the receiver still holds the requested value.
C2_MergeSkip ==
    Skipped =>
        /\ WriteEvents = {}
        /\ EventsOf("audit") = {}
        /\ disk[Target] = last.old
        /\ last.err = "nil"
        /\ ret # 0 /\ ret # recv
        /\ Value(heap[ret]) = last.old
        /\ Value(heap[recv]) = Value(last.before)

\* C2's case: a skip where the requested value differs from the old content.
C2_Witness == Skipped /\ last.before.value # last.old /\ ret # 0

\* C3: when the condition answers that a write is needed, MergeUpdate makes one
\* unconditional write, of the merged value (for set-looser the union of the old
\* and the new set), emits one audit entry, and returns the receiver with the
\* error of the write, nil when it succeeded.
C3_MergeWrite ==
    Wrote =>
        /\ Cardinality(WriteEvents) = 1
        /\ \A i \in WriteEvents :
              /\ last.events[i].op = "CgroupFileWrite"
              /\ last.events[i].arg = LastCond.merged
              /\ last.before.file = CPUSetCPUSName =>
                    CPUSetParse(last.events[i].arg).set =
                        CPUSetParse(last.old).set \cup CPUSetParse(last.before.value).set
              /\ last.before.file = MemoryMinName => last.events[i].arg = last.before.value
              /\ (last.err = "nil") = last.events[i].ok
              /\ last.events[i].ok => disk[Target] = last.events[i].arg
              /\ ~last.events[i].ok => disk[Target] = last.old
        /\ Cardinality(EventsOf("audit")) = 1
        /\ ret = recv
        /\ last.self = recv

\* C3's case: a successful write of a union that is neither the old nor the
\* requested set.
C3_Witness ==
    /\ Wrote
    /\ last.err = "nil"
    /\ last.before.file = CPUSetCPUSName
    /\ disk[Target] # last.before.value
    /\ disk[Target] # last.old

\* C4: after a MergeUpdate on a merge-capable updater that returned no error, the
\* value of the updater returned is the content of the target file.
C4_ReturnedIsStored ==
    (MergeCalled /\ last.err = "nil") => (ret # 0 /\ Value(heap[ret]) = disk[Target])

\* C4's failing case: the CPU set file held "1", the updater asked for "0", the
\* union "0-1" was written, and the updater returned still holds "0".
C4_FailingCase ==
    /\ MergeCalled
    /\ last.err = "nil"
    /\ last.old = Itoa(1)
    /\ last.before.value = Itoa(0)
    /\ disk[Target] = Itoa(0) \o <<"-">> \o Itoa(1)
    /\ ret = recv
    /\ Value(heap[ret]) = Itoa(0)

\* ------------------------------------------- the factory under concurrency

Procs == 1..NumProcs

NoLoc == [g |-> "none", types |-> <<>>, i |-> 0, kind |-> "none", value |-> <<>>,
          ctor |-> "none", err |-> "nil", obj |-> NilObj]

\* The argument lists of Register: up to MaxTypes kinds, repeats allowed.
TypeLists == UNION {[1..n -> Kinds] : n \in 0..MaxTypes}

\* The values passed to New by the goroutines.
FactoryValues == {Itoa(0)}

\* Lock granted while readers still hold the mutex.
CanLockBesideReaders(w, rs) == w = 0

\* sync.RWMutex: Lock needs no holder at all, exclusive or shared.
CanLock(w, rs) == w = 0 /\ rs = {}

\* sync.RWMutex: RLock needs no exclusive holder.
CanRLock(w, rs) == w = 0

\* Register(g, types...): f.lock.Lock().  The call takes its place in the order
\* of registrations here.
RegisterLock(p, g, types) ==
    /\ pc[p] = "idle"
    /\ CanLock(writer, readers)
    /\ writer' = p
    /\ pc' = [pc EXCEPT ![p] = "reg"]
    /\ loc' = [loc EXCEPT ![p] = [NoLoc EXCEPT !.g = g, !.types = types, !.i = 1]]
    /\ firstG' = [k \in Kinds |->
                    IF firstG[k] = "none" /\ \E i \in 1..Len(types) : types[i] = k THEN g ELSE firstG[k]]
    /\ UNCHANGED <<registry, readers, completed, updaterVars, policy, merging>>

\* Register: one iteration of the loop over resourceTypes.
RegisterStep(p) ==
    /\ pc[p] = "reg"
    /\ loc[p].i <= Len(loc[p].types)
    /\ registry' = RegisterOne(registry, loc[p].g, loc[p].types[loc[p].i])
    /\ loc' = [loc EXCEPT ![p].i = @ + 1]
    /\ UNCHANGED <<writer, readers, pc, firstG, completed, updaterVars, policy, merging>>

\* Register: the loop is over, the deferred f.lock.Unlock() runs.
RegisterUnlock(p) ==
    /\ pc[p] = "reg"
    /\ loc[p].i > Len(loc[p].types)
    /\ writer' = 0
    /\ pc' = [pc EXCEPT ![p] = "idle"]
    /\ completed' = completed \cup {loc[p].types[i] : i \in 1..Len(loc[p].types)}
    /\ loc' = [loc EXCEPT ![p] = NoLoc]
    /\ UNCHANGED <<registry, readers, firstG, updaterVars, policy, merging>>

\* New(kind, ParentDir, value): f.lock.RLock().
NewRLock(p, kind, value) ==
    /\ pc[p] = "idle"
    /\ CanRLock(writer, readers)
    /\ readers' = readers \cup {p}
    /\ pc' = [pc EXCEPT ![p] = "new"]
    /\ loc' = [loc EXCEPT ![p] = [NoLoc EXCEPT !.kind = kind, !.value = value]]
    /\ UNCHANGED <<registry, writer, firstG, completed, updaterVars, policy, merging>>

\* New: the lookup and, for a registered kind, the constructor; the result is
\* what New returns.
NewLookup(p, found) ==
    /\ pc[p] = "new"
    /\ LET r == FactoryNew(registry, loc[p].kind, ParentDir, loc[p].value, found)
       IN  loc' = [loc EXCEPT ![p].ctor = r.ctor, ![p].err = r.err, ![p].obj = r.obj]
    /\ pc' = [pc EXCEPT ![p] = "newret"]
    /\ UNCHANGED <<registry, writer, readers, firstG, completed, updaterVars, policy, merging>>

\* New: the deferred f.lock.RUnlock() runs and the result goes to the caller.
NewRUnlock(p) ==
    /\ pc[p] = "newret"
    /\ readers' = readers \ {p}
    /\ pc' = [pc EXCEPT ![p] = "idle"]
    /\ loc' = [loc EXCEPT ![p] = NoLoc]
    /\ UNCHANGED <<registry, writer, firstG, completed, updaterVars, policy, merging>>

\* A factory just made by NewCgroupUpdaterFactory, no updater anywhere.
InitFactory ==
    /\ registry = EmptyRegistry
    /\ firstG = EmptyRegistry
    /\ completed = {}
    /\ FactoryIdle
    /\ disk = [p \in Paths |-> Itoa(1)]
    /\ heap = [i \in 1..NumSlots |-> NilObj]
    /\ recv = 0
    /\ ret = 0
    /\ last = NoCall
    /\ policy = NoPolicy
    /\ merging = NoMerging

NextFactory ==
    \/ \E p \in Procs : \E g \in Ctors : \E types \in TypeLists : RegisterLock(p, g, types)
    \/ \E p \in Procs : RegisterStep(p)
    \/ \E p \in Procs : RegisterUnlock(p)
    \/ \E p \in Procs : \E kind \in Kinds : \E value \in FactoryValues : NewRLock(p, kind, value)
    \/ \E p \in Procs : \E found \in BOOLEAN : NewLookup(p, found)
    \/ \E p \in Procs : NewRUnlock(p)

SpecFactory == InitFactory /\ [][NextFactory]_vars

\* A goroutine is inside New, between RLock and RUnlock.
InNew(p) == pc[p] \in {"new", "newret"}

\* C5: the constructor mapped to a kind is the one of the first Register call
\* that named it: a registered kind is never remapped, every kind named by a
\* Register that returned holds the first constructor passed for it (also when
\* the same call named kinds already present), and a New for it invokes that one.
C5_FirstRegistrationWins ==
    /\ [](/\ \A k \in Kinds : registry[k] # "none" => registry[k] = firstG[k]
          /\ \A k \in completed : registry[k] # "none" /\ registry[k] = firstG[k]
          /\ \A p \in Procs :
                (pc[p] = "newret" /\ loc[p].ctor # "none") => loc[p].ctor = firstG[loc[p].kind])
    /\ [][\A k \in Kinds : registry[k] # "none" => registry'[k] = registry[k]]_vars

\* C5's case: a Register has just passed over a kind that an earlier call mapped
\* to another constructor, and has installed a kind of the same call that was
\* not there.
C5_Witness ==
    \E p \in Procs :
        /\ pc[p] = "reg"
        /\ Len(loc[p].types) = 2
        /\ loc[p].i = 3
        /\ registry[loc[p].types[1]] # loc[p].g
        /\ loc[p].types[1] \in completed
        /\ loc[p].types[2] \notin completed
        /\ registry[loc[p].types[2]] = loc[p].g

\* C6: New on a kind without a registered constructor returns a nil updater and
\* an error and invokes no constructor, and no step taken while a New is under
\* way changes the registry.
C6_NewUnregistered ==
    /\ [](\A p \in Procs :
            (pc[p] = "newret" /\ registry[loc[p].kind] = "none") =>
                (loc[p].obj = NilObj /\ loc[p].err # "nil" /\ loc[p].ctor = "none"))
    /\ [][(\E p \in Procs : InNew(p) \/ InNew(p)') => registry' = registry]_vars

\* C6's case: a New has returned for a kind that is not registered while another
\* kind is.
C6_Witness ==
    \E p \in Procs :
        /\ pc[p] = "newret"
        /\ registry[loc[p].kind] = "none"
        /\ loc[p].err = "not registered"
        /\ \E k \in Kinds : registry[k] # "none"

\* C7: under every interleaving of Register and New the registry stays sound:
\* no kind of a Register that returned is missing, a mapped kind holds a
\* constructor that was passed for it, the exclusive lock is held by exactly the
\* goroutine that is in Register's loop and by no other goroutine beside it, and
\* no New is between its RLock and RUnlock while a Register holds the lock.
C7_RegistrySound ==
    /\ \A k \in completed : registry[k] \in Ctors
    /\ \A k \in Kinds : registry[k] \in {"none", firstG[k]}
    /\ \A p \in Procs : (pc[p] = "reg") = (writer = p)
    /\ \A p \in Procs : InNew(p) = (p \in readers)
    /\ writer # 0 => readers = {}
    /\ \A p, q \in Procs : (pc[p] = "reg" /\ InNew(q)) => FALSE

\* C7's case: two goroutines hold the shared lock in New at once, after
\* registrations have been made.
C7_Witness ==
    /\ Cardinality(readers) >= 2
    /\ completed # {}
    /\ \E p \in Procs : pc[p] = "newret" /\ loc[p].ctor # "none"

\* ------------------------------------------- every operation of one caller

SmallInputs == {Itoa(n) : n \in 0..MaxSmall}

\* The kinds the caller asks for: a common one and a mergeable one.
SpecKinds == {CPUSharesName, MemoryMinName}

\* As InitMerge, the CPU set file, which this caller leaves alone, being empty.
Init == InitMerge /\ disk[CgroupPath(CPUSetCPUSName, ParentDir)] = <<>>

\* One caller using every operation of the updaters: cgroup updaters without and
\* with a merge function, and default updaters.
Next ==
    \/ \E kind \in SpecKinds : \E value \in SmallInputs : \E found \in BOOLEAN : New(kind, value, found)
    \/ \E value \in SmallInputs : NewDefault(value)
    \/ \E writeOk, auditOk \in BOOLEAN : Update(writeOk, auditOk)
    \/ \E isValid, readOk, writeOk, auditOk \in BOOLEAN : MergeUpdate(isValid, readOk, writeOk, auditOk)
    \/ Clone
    \/ \E r \in {recv, ret} : \E time \in 0..MaxTime : UpdateLastUpdateTimestamp(r, time)

Spec == Init /\ [][Next]_vars

\* C8: Clone returns another instance with the fields of its source, and from
\* then on a change of the clone (its timestamp, or the value the merge skip
\* puts into it) leaves the source as it was, and a change of the source leaves
\* the clone as it was.
C8_CloneIndependent ==
    /\ [](last.op = "Clone" =>
            /\ ret # 0 /\ ret # recv
            /\ heap[ret] = heap[recv]
            /\ heap[recv] = last.before)
    /\ [][/\ (last'.op = "UpdateLastUpdateTimestamp" /\ last'.self = ret /\ ret # recv) =>
                heap'[recv] = heap[recv]
          /\ (last'.op = "UpdateLastUpdateTimestamp" /\ last'.self = recv /\ ret \notin {0, recv}) =>
                heap'[ret] = heap[ret]
          /\ last'.op = "MergeUpdate" => heap'[recv] = heap[recv]]_vars

\* C8's case: a clone whose timestamp was changed and now differs from that of
\* its source.
C8_Witness ==
    /\ last.op = "UpdateLastUpdateTimestamp"
    /\ last.self = ret
    /\ ret \notin {0, recv}
    /\ last.before = heap[recv]
    /\ heap[ret].lastUpdateTimestamp # heap[recv].lastUpdateTimestamp

\* --------------------------------------------- the merge conditions alone

Conds == {"MergeConditionIfValueIsLarger", "MergeConditionIfCPUSetIsLooser"}

CondInputs(cond) == IF cond = "MergeConditionIfCPUSetIsLooser" THEN CPUSetInputs ELSE ScalarInputs

\* mergeCondition(oldValue, newValue), called directly.
EvalCondition(cond, oldValue, newValue) ==
    /\ LET r == CallMergeCondition(cond, oldValue, newValue)
       IN  policy' = [cond |-> cond, old |-> oldValue, new |-> newValue,
                      merged |-> r.merged, need |-> r.need, err |-> r.err]
    /\ UNCHANGED <<factoryVars, updaterVars, merging>>

NextPolicy ==
    \E cond \in Conds : \E oldValue, newValue \in CondInputs(cond) : EvalCondition(cond, oldValue, newValue)

SpecPolicy == InitFactory /\ [][NextPolicy]_vars

\* What the scalar inputs denote, from how they were built: whether the string
\* is a signed 64-bit decimal integer, and its place in the order of integers
\* (the int64 maximum comes after every other input).
ScalarMeaning(s) ==
    IF \E n \in 0..MaxVal : s = Itoa(n)
    THEN [ok |-> TRUE, rank |-> CHOOSE n \in 0..MaxVal : s = Itoa(n)]
    ELSE IF s = <<"+">> \o Itoa(1) THEN [ok |-> TRUE, rank |-> 1]
    ELSE IF s = <<"-">> \o Itoa(1) THEN [ok |-> TRUE, rank |-> -1]
    ELSE IF s = <<"0">> \o Itoa(MaxVal) THEN [ok |-> TRUE, rank |-> MaxVal]
    ELSE IF s = StrInt64Max THEN [ok |-> TRUE, rank |-> MaxVal + 1]
    ELSE [ok |-> FALSE, rank |-> 0]

\* What the CPU-set inputs denote, from how they were built.
CPUSetMeaning(s) ==
    LET I == 0..MaxCPU
    IN  IF s = <<>> THEN [ok |-> TRUE, set |-> {}]
        ELSE IF \E a \in I : s = Itoa(a)
        THEN [ok |-> TRUE, set |-> {CHOOSE a \in I : s = Itoa(a)}]
        ELSE IF \E a, b \in I : a <= b /\ s = Itoa(a) \o <<"-">> \o Itoa(b)
        THEN [ok |-> TRUE, set |-> {c \in I : \E a, b \in I : /\ a <= b
                                                            /\ s = Itoa(a) \o <<"-">> \o Itoa(b)
                                                            /\ a <= c /\ c <= b}]
        ELSE IF \E a, b \in I : s = Itoa(a) \o <<",">> \o Itoa(b)
        THEN [ok |-> TRUE, set |-> {c \in I : \E a, b \in I : /\ s = Itoa(a) \o <<",">> \o Itoa(b)
                                                            /\ c \in {a, b}}]
        ELSE [ok |-> FALSE, set |-> {}]

\* C9: MergeConditionIfValueIsLarger(old, new): when either string is no signed
\* 64-bit decimal integer, an error and needMerge = false; otherwise no error,
\* the resolved value is new, and needMerge is true exactly when new > old.
C9_ValueIsLarger ==
    policy.cond = "MergeConditionIfValueIsLarger" =>
        LET o == ScalarMeaning(policy.old)
            n == ScalarMeaning(policy.new)
        IN  IF ~o.ok \/ ~n.ok
            THEN policy.err # "nil" /\ ~policy.need
            ELSE /\ policy.err = "nil"
                 /\ policy.merged = policy.new
                 /\ policy.need = (n.rank > o.rank)

\* C9's case: two different strings for the same integer, which need no write.
C9_Witness ==
    /\ policy.cond = "MergeConditionIfValueIsLarger"
    /\ policy.old # policy.new
    /\ ScalarMeaning(policy.old).ok /\ ScalarMeaning(policy.new).ok
    /\ ScalarMeaning(policy.old).rank = ScalarMeaning(policy.new).rank
    /\ policy.err = "nil" /\ ~policy.need

\* C10: MergeConditionIfCPUSetIsLooser(old, new): when either string is no CPU
\* set, an error and needMerge = false; otherwise needMerge is false exactly when
\* new is a subset of old, and when it is true the resolved value denotes the
\* union of old and new.
C10_CPUSetIsLooser ==
    policy.cond = "MergeConditionIfCPUSetIsLooser" =>
        LET o == CPUSetMeaning(policy.old)
            n == CPUSetMeaning(policy.new)
        IN  IF ~o.ok \/ ~n.ok
            THEN policy.err # "nil" /\ ~policy.need
            ELSE /\ policy.err = "nil"
                 /\ policy.need = ~(n.set \subseteq o.set)
                 /\ policy.need =>
                       /\ CPUSetParse(policy.merged).ok
                       /\ CPUSetParse(policy.merged).set = o.set \cup n.set
                       /\ o.set \subseteq CPUSetParse(policy.merged).set
                       /\ n.set \subseteq CPUSetParse(policy.merged).set

\* C10's case: two sets of which neither contains the other, resolved to a
\* string that is neither of them.
C10_Witness ==
    /\ policy.cond = "MergeConditionIfCPUSetIsLooser"
    /\ policy.need
    /\ policy.merged \notin {policy.old, policy.new}
    /\ ~(CPUSetMeaning(policy.old).set \subseteq CPUSetMeaning(policy.new).set)
    /\ CPUSetMeaning(policy.old).set # {}


\* ------------------------------------------------- merge without a strategy

\* The last call was MergeUpdate on an updater without a merge function: a
\* common cgroup updater or a default updater.
PlainMergeCalled == last.op = "MergeUpdate" /\ last.before.mergeUpdateFunc = "nil"

\* C11: MergeUpdate on an updater without a merge function has the effect of
\* Update from the same state: for some answers of the write and of the audit
\* sink, the calls made (no validation, no read), the content of the file and
\* the error are those of Update on the same updater and the same file.
C11_MergeDegrades ==
    PlainMergeCalled =>
        /\ EventsOf("IsValid") = {} /\ EventsOf("CgroupFileRead") = {} /\ EventsOf("mergeCondition") = {}
        /\ \E writeOk, auditOk \in BOOLEAN :
              LET out == UpdateOf(last.before, last.old, writeOk, auditOk)
              IN  /\ last.events = out.events
                  /\ last.err = out.err
                  /\ disk[Target] = out.content

\* C11's case: MergeUpdate on a common cgroup updater that wrote a new content.
C11_Witness ==
    /\ PlainMergeCalled
    /\ last.before.variant = "cgroup"
    /\ last.err = "nil"
    /\ disk[Target] = last.before.value
    /\ disk[Target] # last.old

\* C12: every MergeUpdate, whether it skipped, wrote or failed, hands back an
\* updater (never nil) whose Path() is the Path() of the receiver.
C12_ReturnsUpdater ==
    last.op = "MergeUpdate" =>
        /\ ret # 0
        /\ heap[ret] # NilObj
        /\ Path(heap[ret]) = Path(last.before)

\* C12's failing case: MergeUpdate on a common cgroup updater wrote the value,
\* returned no error, and returned nil as the updater.
C12_FailingCase ==
    /\ PlainMergeCalled
    /\ last.before.variant = "cgroup"
    /\ last.err = "nil"
    /\ disk[Target] = last.before.value
    /\ ret = 0

\* ------------------------------------------------ the steps of the driver

\* The last call was a merge whose value failed validation.
ValidateFailed ==
    /\ MergeCalled
    /\ Len(last.events) >= 1
    /\ last.events[1].op = "IsValid"
    /\ ~last.events[1].ok

\* C13: when the requested value fails validation, MergeUpdate returns an error
\* having made no other call (no read, no merge condition, no write, no audit
\* entry), the file is unchanged, and the updater returned is the receiver
\* itself, with its fields as they were.
C13_ValidateFirst ==
    /\ MergeCalled => Len(last.events) >= 1 /\ last.events[1].op = "IsValid"
    /\ ValidateFailed =>
          /\ Len(last.events) = 1
          /\ last.err # "nil"
          /\ disk[Target] = last.old
          /\ ret = recv
          /\ heap[recv] = last.before

\* C13's case: a value that would have been written (it is larger than the
\* content of the file) failed validation.
C13_Witness ==
    /\ ValidateFailed
    /\ last.before.file = MemoryMinName
    /\ LastCond.err = "nil" /\ LastCond.need
    /\ disk[Target] = last.old

\* The last call was a merge whose read of the current value failed.
ReadFailed ==
    /\ MergeCalled
    /\ Len(last.events) >= 2
    /\ last.events[1].ok
    /\ last.events[2].op = "CgroupFileRead"
    /\ ~last.events[2].ok

\* The last call was a merge whose condition returned an error.
CondFailed == CondEvaluated /\ LastCond.err # "nil"

\* C14: when the read fails, or the merge condition returns an error, MergeUpdate
\* returns that error and the receiver itself, writes nothing, audits nothing and
\* leaves the file as it was; the condition is called only after a successful
\* read, and an audit entry or a write only after the condition returned no error.
C14_ReadThenEvaluate ==
    /\ ReadFailed =>
          /\ Len(last.events) = 2
          /\ last.err = "read failed"
          /\ ret = recv /\ heap[recv] = last.before
          /\ disk[Target] = last.old
    /\ CondFailed =>
          /\ last.err = LastCond.err
          /\ WriteEvents = {} /\ EventsOf("audit") = {}
          /\ ret = recv /\ heap[recv] = last.before
          /\ disk[Target] = last.old
    /\ MergeCalled =>
          /\ \A i \in EventsOf("mergeCondition") :
                i = 3 /\ last.events[2].op = "CgroupFileRead" /\ last.events[2].ok
          /\ \A i \in WriteEvents \cup EventsOf("audit") :
                i > 3 /\ last.events[3].op = "mergeCondition" /\ last.events[3].ok

\* C14's case: the file holds a content the condition cannot parse, and the
\* merge returned the condition's error.
C14_Witness ==
    /\ CondFailed
    /\ last.err = LastCond.err
    /\ ret = recv
    /\ disk[Target] = last.old

\* C15: a MergeUpdate that follows a successful MergeUpdate of the same updater
\* (same requested value, nothing else writing the file) writes nothing and
\* leaves the file as it is, and when it gets as far as the merge condition it
\* takes the skip (the condition is the last call made, no error is returned, and
\* the updater returned is a clone holding the content of the file); this under
\* both merge conditions.
C15_MergeIdempotent ==
    [][(/\ MergeCalled /\ last.err = "nil"
        /\ MergeCalled'
        /\ last'.self = last.self
        /\ last'.before = last.before)
       => /\ WriteEvents' = {}
          /\ disk' = disk
          /\ (Len(last'.events) >= 2 /\ last'.events[1].ok /\ last'.events[2].ok) =>
                /\ Len(last'.events) = 3 /\ last'.events[3].ok
                /\ last'.err = "nil"
                /\ ret' # 0 /\ ret' # recv'
                /\ Value(heap'[ret']) = disk[Path(last.before)]]_vars

\* C15's case: a skip on a content that is no initial content of the file, so
\* that an earlier merge wrote it, and that the requested value does not exceed:
\* the requested integer itself, or a CPU set that holds the requested CPUs.
C15_Witness ==
    /\ Skipped
    /\ disk[Target] \notin InitialContent(Target)
    /\ last.old = disk[Target]
    /\ last.before.file = MemoryMinName => last.before.value = disk[Target]
    /\ last.before.file = CPUSetCPUSName =>
          CPUSetParse(last.before.value).set \subseteq CPUSetParse(disk[Target]).set

\* ----------------------------------------------------------- the audit log

\* The last call was a plain update: Update on any updater.
PlainUpdateCalled == last.op = "Update"

\* C16: in a plain update the audit entry is recorded on success of the write:
\* every audit entry of the call follows a write of the call that returned no
\* error, so a plain update whose write fails leaves no audit entry.
C16_AuditAfterWrite ==
    PlainUpdateCalled =>
        /\ \A i \in EventsOf("audit") : \E j \in WriteEvents : j < i /\ last.events[j].ok
        /\ last.err # "nil" => EventsOf("audit") = {}

\* C16's failing case: a plain update whose write failed, leaving the file as it
\* was, and that recorded an audit entry all the same.
C16_FailingCase ==
    /\ PlainUpdateCalled
    /\ last.err # "nil"
    /\ disk[Target] = last.old
    /\ EventsOf("audit") # {}

NotAudit(e) == e.op # "audit"

\* What the last call, an Update or a MergeUpdate that got as far as its audit
\* entry, does when the audit sink answers auditOk, all else being as it was.
WithAudit(auditOk) ==
    LET writeOk == \A i \in WriteEvents : last.events[i].ok
    IN  IF last.op = "Update"
        THEN UpdateOf(last.before, last.old, writeOk, auditOk)
        ELSE MergeUpdateOf(last.before, last.old, TRUE, TRUE, writeOk, auditOk)

\* C17: a failure of the audit sink is never propagated: in every Update and
\* MergeUpdate that records an audit entry, the error returned is the error of
\* the write, and the error, the updater returned, the other calls made and the
\* content of the file are the same whether the audit sink succeeds or fails.
C17_AuditNeverPropagates ==
    (last.op \in {"Update", "MergeUpdate"} /\ EventsOf("audit") # {}) =>
        /\ Cardinality(WriteEvents) = 1
        /\ \A i \in WriteEvents : (last.err = "nil") = last.events[i].ok
        /\ \A ok \in {WithAudit(TRUE)} : \A ko \in {WithAudit(FALSE)} :
               /\ ok.err = last.err /\ ko.err = last.err
               /\ ok.content = disk[Target] /\ ko.content = disk[Target]
               /\ ok.ret = ko.ret
               /\ last.op = "MergeUpdate" =>
                     ret = (IF ok.ret = "self" THEN recv ELSE 0)
               /\ SelectSeq(ok.events, NotAudit) = SelectSeq(last.events, NotAudit)
               /\ SelectSeq(ko.events, NotAudit) = SelectSeq(last.events, NotAudit)

\* C17's case: the audit sink failed, and the call wrote a new content to the
\* file and returned no error.
C17_Witness ==
    /\ last.op \in {"Update", "MergeUpdate"}
    /\ \E i \in EventsOf("audit") : ~last.events[i].ok
    /\ last.err = "nil"
    /\ disk[Target] # last.old

\* ------------------------------------------- two goroutines merging at once

\* The values the goroutines ask for: integers above the initial content for
\* memory.min, single CPUs for cpuset.cpus.
RaceInputs(kind) ==
    IF kind = CPUSetCPUSName THEN {Itoa(a) : a \in 0..MaxSmall} ELSE {Itoa(n) : n \in 1..MaxVal}

\* As InitMerge, memory.min holding 0 and cpuset.cpus no CPU.
InitRace ==
    /\ InitMerge
    /\ disk[CgroupPath(MemoryMinName, ParentDir)] = Itoa(0)
    /\ disk[CgroupPath(CPUSetCPUSName, ParentDir)] = <<>>

\* Goroutine p builds an updater of its own for a mergeable kind, having none or
\* having merged with the one it has; the goroutines work on the same file.
RaceNew(p, kind, value) ==
    /\ merging[p].pc = "idle"
    /\ merging[p].u = NilObj \/ merging[p].res # "none"
    /\ \A q \in Callers \ {p} : IF merging[q].u = NilObj THEN TRUE ELSE merging[q].u.file = kind
    /\ \E r \in {FactoryNew(registry, kind, ParentDir, value, TRUE)} :
          merging' = [merging EXCEPT ![p] = [pc |-> "idle", u |-> r.obj, oldStr |-> <<>>, res |-> "none"]]
    /\ UNCHANGED <<factoryVars, updaterVars, policy>>

\* MergeUpdate of goroutine p up to and including sysutil.CgroupFileRead: a value
\* that fails validation, or a failed read, ends the call with an error; else
\* the content of the file is now in the local oldStr.
RaceRead(p, isValid, readOk) ==
    /\ merging[p].pc = "idle"
    /\ merging[p].u # NilObj
    /\ isValid \/ readOk
    /\ merging' = IF isValid /\ readOk
                  THEN [merging EXCEPT ![p].pc = "read", ![p].oldStr = disk[Path(merging[p].u)], ![p].res = "none"]
                  ELSE [merging EXCEPT ![p].oldStr = <<>>, ![p].res = "error"]
    /\ UNCHANGED <<factoryVars, updaterVars, policy>>

\* The rest of MergeUpdate of goroutine p, on the oldStr it read: the merge
\* condition, then the skip, or the audit entry and sysutil.CgroupFileWrite,
\* which puts the merged value into the file as the file is by then.
RaceResolve(p, writeOk, auditOk) ==
    /\ merging[p].pc = "read"
    /\ \E u \in {merging[p].u} :
       \E out \in {MergeFuncUpdateCgroup(u, merging[p].oldStr, TRUE, TRUE, writeOk, auditOk)} :
          /\ Drawn(out.events, TRUE, TRUE, writeOk, auditOk)
          /\ disk' = IF \E i \in 1..Len(out.events) : out.events[i].op \in WriteOps /\ out.events[i].ok
                     THEN [disk EXCEPT ![Path(u)] = out.content]
                     ELSE disk
          /\ merging' = [merging EXCEPT ![p].pc = "idle",
                                        ![p].oldStr = <<>>,
                                        ![p].res = IF out.err # "nil" THEN "error"
                                                   ELSE IF out.ret = "clone" THEN "skip" ELSE "write"]
    /\ UNCHANGED <<factoryVars, heap, recv, ret, last, policy>>

NextRace ==
    \/ \E p \in Callers : \E kind \in MergeKinds : \E value \in RaceInputs(kind) : RaceNew(p, kind, value)
    \/ \E p \in Callers : \E isValid, readOk \in BOOLEAN : RaceRead(p, isValid, readOk)
    \/ \E p \in Callers : \E writeOk, auditOk \in BOOLEAN : RaceResolve(p, writeOk, auditOk)

\* Two goroutines that merge on one path with nothing between them but the file.
SpecRace == InitRace /\ [][NextRace]_vars

\* Goroutine p's call ends in this step, having read the file earlier.
Resolves(p) == merging[p].pc = "read" /\ merging'[p].pc = "idle"

\* C18 (as stated): with two goroutines merging on the same path, the read and
\* the write of each being separate steps, no step makes a stored value smaller
\* (scalar-larger) or narrower (set-looser) than a value stored before it.
C18_ConcurrentMonotone ==
    [][\A kind \in MergeKinds :
          NotDecreased(kind, disk[CgroupPath(kind, ParentDir)], disk'[CgroupPath(kind, ParentDir)])]_vars

\* C18 (amended): with two goroutines merging on the same path, a call that
\* changes the file stores a value that is not smaller or narrower than the
\* value that call read nor than the value it asked for; so a call leaves the
\* stored value not decreased whenever the file still held, at the write, what
\* the call had read.  (Across calls that interleave, the stored value can
\* decrease.)
C18_WriteNotBelowRead ==
    [][\A p \in Callers :
          Resolves(p) =>
              LET kind == merging[p].u.file
                  path == Path(merging[p].u)
              IN  /\ \A q \in Paths \ {path} : disk'[q] = disk[q]
                  /\ disk'[path] # disk[path] =>
                        /\ NotDecreased(kind, merging[p].oldStr, disk'[path])
                        /\ NotDecreased(kind, merging[p].u.value, disk'[path])
                  /\ disk[path] = merging[p].oldStr => NotDecreased(kind, disk[path], disk'[path])]_vars

\* C18's case: both goroutines wrote memory.min, the file holds the value of
\* one, and the other wrote a larger value: the larger value was written between
\* the read and the write of the call that wrote the smaller one.
C18_Witness ==
    \E p, q \in Callers :
        /\ merging[p].res = "write" /\ merging[q].res = "write"
        /\ merging[p].pc = "idle" /\ merging[q].pc = "idle"
        /\ merging[p].u.file = MemoryMinName /\ merging[q].u.file = MemoryMinName
        /\ disk[Path(merging[p].u)] = merging[p].u.value
        /\ IntGreater(ParseInt(merging[q].u.value), ParseInt(merging[p].u.value))

\* ------------------------------------------------- what the calls leave alone

\* The calls made on an updater, as opposed to the constructions.
MethodOps == {"Update", "MergeUpdate", "Clone", "UpdateLastUpdateTimestamp"}

\* C19: Path() and ResourceType() of an updater are those of a file the
\* constructor was asked for and never change: every Update, MergeUpdate, Clone
\* and UpdateLastUpdateTimestamp leaves them as they were, on the receiver and on
\* an updater returned earlier, and every clone and every updater returned by
\* MergeUpdate has the Path() and the ResourceType() of the receiver.
C19_PathImmutable ==
    /\ [](/\ recv # 0 => Path(heap[recv]) \in Paths
          /\ ret # 0 =>
                /\ recv # 0
                /\ Path(heap[ret]) = Path(heap[recv])
                /\ ResourceType(heap[ret]) = ResourceType(heap[recv]))
    /\ [][last'.op \in MethodOps =>
             /\ recv' = recv
             /\ Path(heap'[recv]) = Path(heap[recv])
             /\ ResourceType(heap'[recv]) = ResourceType(heap[recv])
             /\ Path(heap'[recv]) = Path(last'.before)
             /\ (ret # 0 /\ ret' = ret) =>
                   /\ Path(heap'[ret]) = Path(heap[ret])
                   /\ ResourceType(heap'[ret]) = ResourceType(heap[ret])]_vars

\* C19's case: MergeUpdate returned a clone, another instance than the
\* receiver, with the receiver's path.
C19_Witness ==
    /\ last.op = "MergeUpdate"
    /\ ret \notin {0, recv}
    /\ Path(heap[ret]) = Path(heap[recv])
    /\ Value(heap[ret]) # Value(heap[recv])

\* C20: the timestamp of an updater changes only in UpdateLastUpdateTimestamp
\* called on that instance: Update and MergeUpdate, failing or not, leave the
\* timestamp of the receiver as it was, no call changes the timestamp of an
\* instance it is not called on, and the clone MergeUpdate returns on a skip has
\* the timestamp of the receiver.
C20_TimestampFrame ==
    [][/\ last'.op \in {"Update", "MergeUpdate", "Clone"} =>
             GetLastUpdateTimestamp(heap'[recv]) = GetLastUpdateTimestamp(heap[recv])
       /\ (last'.op = "MergeUpdate" /\ ret' \notin {0, recv}) =>
             GetLastUpdateTimestamp(heap'[ret']) = GetLastUpdateTimestamp(heap[recv])
       /\ last'.op \in MethodOps =>
             \A r \in {recv, ret} \ {0} :
                (/\ heap'[r] # NilObj
                 /\ ~(r = ret' /\ r # recv /\ last'.op \in {"Clone", "MergeUpdate"})
                 /\ GetLastUpdateTimestamp(heap'[r]) # GetLastUpdateTimestamp(heap[r]))
                => (last'.op = "UpdateLastUpdateTimestamp" /\ last'.self = r)]_vars

\* C20's case: a skip by an updater whose timestamp had been set, the clone
\* returned carrying that timestamp.
C20_Witness ==
    /\ last.op = "MergeUpdate"
    /\ ret \notin {0, recv}
    /\ GetLastUpdateTimestamp(heap[recv]) # 0
    /\ GetLastUpdateTimestamp(heap[ret]) = GetLastUpdateTimestamp(heap[recv])
====
